---- MODULE Spec2Model ----
(***************************************************************************)
(* Desk Sentry: the posture service (analyzePosture and its two scorers)   *)
(* and the pose-detection component's notification throttle               *)
(* (onPoseResults, checkAndSendNotification).                              *)
(*                                                                         *)
(* Numbers.  Landmark coordinates and visibilities are JavaScript numbers; *)
(* here they are integers counting thousandths (0.05 is 50, 0.5 is 500).   *)
(* A midpoint (a + b) / 2 is carried as the sum a + b, in two-thousandths, *)
(* and a score is carried in two-thousandths of a point until it is        *)
(* rounded, so every comparison and the final Math.round are exact.  The   *)
(* two atan2 angles of the analysis are not part of the model; nothing in  *)
(* the score, the status or the throttle reads them.                       *)
(* The wall clock Date.now() counts milliseconds.                          *)
(***************************************************************************)
EXTENDS Integers, Sequences, FiniteSets, TLC

VARIABLES
    now,                  \* the value Date.now() returns
    electronAPI,          \* window.electronAPI is exposed (preload.js ran)
    notificationInWindow, \* 'Notification' in window
    permission,           \* Notification.permission
    results,              \* the results object of the latest pose callback
    currentPosture,       \* PoseDetectionComponent.currentPosture
    isAnalyzing,          \* PoseDetectionComponent.isAnalyzing
    lastNotificationTime, \* PoseDetectionComponent.lastNotificationTime
    lastPostureStatus,    \* PoseDetectionComponent.lastPostureStatus
    alert,                \* the alert request the latest callback emitted
    pending,              \* frames sent to the estimator, results not yet back
    hist                  \* observations of the run so far (history only)

vars == <<now, electronAPI, notificationInWindow, permission, results,
          currentPosture, isAnalyzing, lastNotificationTime,
          lastPostureStatus, alert, pending, hist>>

-----------------------------------------------------------------------------
(* Bounds of the model *)

StartTime == 100000
MaxTime == 220000
TickStep == 30000
MaxExtra == 1
MaxPending == 2

-----------------------------------------------------------------------------
(* JavaScript values *)

\* undefined and null are records of their own, so that they compare (unequal)
\* with a landmark, a landmark array and an analysis, which are records too.
Undefined == [type |-> "undefined"]
Null == [type |-> "null"]

Abs(n) == IF n < 0 THEN 0 - n ELSE n
Max(a, b) == IF a >= b THEN a ELSE b
Min(a, b) == IF a <= b THEN a ELSE b

\* Math.round of a non-negative value carried in two-thousandths: the nearest
\* integer, a half rounding up.
Round(v) == (v + 1000) \div 2000

-----------------------------------------------------------------------------
(* posture.service.ts *)

LANDMARKS == [NOSE |-> 0, LEFT_SHOULDER |-> 11, RIGHT_SHOULDER |-> 12,
              LEFT_HIP |-> 23, RIGHT_HIP |-> 24, LEFT_EAR |-> 7,
              RIGHT_EAR |-> 8]

UsedIndices == {0, 7, 8, 11, 12, 23, 24}

\* landmarks[i]: an array is its length and its elements at the indices the
\* service reads; an index at or past the length reads undefined.
At(landmarks, i) ==
    IF i < landmarks.length THEN landmarks.at[i] ELSE Undefined

\* areLandmarksVisible with the threshold met at exactly 0.5.
areLandmarksVisible_AtLeast(landmarks) ==
    \A i \in 1..Len(landmarks) :
        /\ landmarks[i] # Undefined
        /\ "visibility" \in DOMAIN landmarks[i]
        /\ landmarks[i].visibility >= 500

\* A landmark whose visibility is undefined is a record without that field.
areLandmarksVisible(landmarks) ==
    \A i \in 1..Len(landmarks) :
        /\ landmarks[i] # Undefined
        /\ "visibility" \in DOMAIN landmarks[i]
        /\ landmarks[i].visibility > 500

SittingStatus(score) ==
    IF score >= 75 THEN "good"
    ELSE IF score >= 50 THEN "fair"
    ELSE "poor"

\* StandingStatus with a score of exactly 75 falling to fair.
StandingStatus_Above(score) ==
    IF score > 75 THEN "good"
    ELSE IF score >= 50 THEN "fair"
    ELSE "poor"

StandingStatus(score) ==
    IF score >= 75 THEN "good"
    ELSE IF score >= 50 THEN "fair"
    ELSE "poor"

SittingMessage(score) ==
    IF score >= 75 THEN "Excellent sitting posture!"
    ELSE IF score >= 50 THEN "Head too far forward"
    ELSE "Slouching - sit up straight!"

StandingMessage(score) ==
    IF score >= 75 THEN "Excellent posture!"
    ELSE IF score >= 50 THEN "Sit up straighter"
    ELSE "Slouching detected!"

\* SittingScore without the clamp to 0..100 before rounding.
SittingScore_NoClamp(landmarks) ==
    LET leftShoulder == At(landmarks, LANDMARKS.LEFT_SHOULDER)
        rightShoulder == At(landmarks, LANDMARKS.RIGHT_SHOULDER)
        leftEar == At(landmarks, LANDMARKS.LEFT_EAR)
        rightEar == At(landmarks, LANDMARKS.RIGHT_EAR)
        nose == At(landmarks, LANDMARKS.NOSE)
        shoulderX == leftShoulder.x + rightShoulder.x
        forwardHeadDistance == (leftEar.x + rightEar.x) - shoulderX
        earShoulderDepth ==
            (leftEar.z + rightEar.z) - (leftShoulder.z + rightShoulder.z)
        noseForwardLean == 2 * nose.x - shoulderX
        shoulderImbalance == Abs(leftShoulder.y - rightShoulder.y)
    IN  Round(100 * 2000
              - (IF Abs(forwardHeadDistance) > 100
                 THEN Abs(forwardHeadDistance) * 300 ELSE 0)
              - (IF earShoulderDepth < -40
                 THEN Abs(earShoulderDepth) * 200 ELSE 0)
              - (IF noseForwardLean > 160
                 THEN (noseForwardLean - 160) * 150 ELSE 0)
              - (IF shoulderImbalance > 50
                 THEN shoulderImbalance * 2 * 100 ELSE 0))

\* SittingScore with the shoulder penalty charged from exactly 0.05.
SittingScore_AtThreshold(landmarks) ==
    LET leftShoulder == At(landmarks, LANDMARKS.LEFT_SHOULDER)
        rightShoulder == At(landmarks, LANDMARKS.RIGHT_SHOULDER)
        leftEar == At(landmarks, LANDMARKS.LEFT_EAR)
        rightEar == At(landmarks, LANDMARKS.RIGHT_EAR)
        nose == At(landmarks, LANDMARKS.NOSE)
        shoulderX == leftShoulder.x + rightShoulder.x
        forwardHeadDistance == (leftEar.x + rightEar.x) - shoulderX
        earShoulderDepth ==
            (leftEar.z + rightEar.z) - (leftShoulder.z + rightShoulder.z)
        noseForwardLean == 2 * nose.x - shoulderX
        shoulderImbalance == Abs(leftShoulder.y - rightShoulder.y)
        score == 100 * 2000
                 - (IF Abs(forwardHeadDistance) > 100
                    THEN Abs(forwardHeadDistance) * 300 ELSE 0)
                 - (IF earShoulderDepth < -40
                    THEN Abs(earShoulderDepth) * 200 ELSE 0)
                 - (IF noseForwardLean > 160
                    THEN (noseForwardLean - 160) * 150 ELSE 0)
                 - (IF shoulderImbalance >= 50
                    THEN shoulderImbalance * 2 * 100 ELSE 0)
    IN  Round(Min(100 * 2000, Max(0, score)))

SittingScore(landmarks) ==
    LET leftShoulder == At(landmarks, LANDMARKS.LEFT_SHOULDER)
        rightShoulder == At(landmarks, LANDMARKS.RIGHT_SHOULDER)
        leftEar == At(landmarks, LANDMARKS.LEFT_EAR)
        rightEar == At(landmarks, LANDMARKS.RIGHT_EAR)
        nose == At(landmarks, LANDMARKS.NOSE)
        shoulderX == leftShoulder.x + rightShoulder.x
        shoulderZ == leftShoulder.z + rightShoulder.z
        earX == leftEar.x + rightEar.x
        earZ == leftEar.z + rightEar.z
        forwardHeadDistance == earX - shoulderX
        earShoulderDepth == earZ - shoulderZ
        noseForwardLean == 2 * nose.x - shoulderX
        shoulderImbalance == Abs(leftShoulder.y - rightShoulder.y)
        forwardPenalty ==
            IF Abs(forwardHeadDistance) > 100
            THEN Abs(forwardHeadDistance) * 300 ELSE 0
        depthPenalty ==
            IF earShoulderDepth < -40
            THEN Abs(earShoulderDepth) * 200 ELSE 0
        nosePenalty ==
            IF noseForwardLean > 160
            THEN (noseForwardLean - 160) * 150 ELSE 0
        shoulderPenalty ==
            IF shoulderImbalance > 50
            THEN shoulderImbalance * 2 * 100 ELSE 0
        score == 100 * 2000 - forwardPenalty - depthPenalty - nosePenalty
                 - shoulderPenalty
    IN  Round(Min(100 * 2000, Max(0, score)))

analyzeSittingPosture(landmarks) ==
    LET leftShoulder == At(landmarks, LANDMARKS.LEFT_SHOULDER)
        rightShoulder == At(landmarks, LANDMARKS.RIGHT_SHOULDER)
        leftEar == At(landmarks, LANDMARKS.LEFT_EAR)
        rightEar == At(landmarks, LANDMARKS.RIGHT_EAR)
        nose == At(landmarks, LANDMARKS.NOSE)
        score == SittingScore(landmarks)
    IN  [score |-> score,
         status |-> SittingStatus(score),
         message |-> SittingMessage(score),
         posture |-> "sitting",
         metrics |->
            [earShoulderAlignment |->
                (leftEar.x + rightEar.x) - (leftShoulder.x + rightShoulder.x),
             noseShoulderAlignment |->
                2 * nose.x - (leftShoulder.x + rightShoulder.x)]]

\* StandingScore with a forward lean of exactly -0.05 in the middle tier.
StandingScore_MiddleFromBoundary(landmarks) ==
    LET leftShoulder == At(landmarks, LANDMARKS.LEFT_SHOULDER)
        rightShoulder == At(landmarks, LANDMARKS.RIGHT_SHOULDER)
        leftHip == At(landmarks, LANDMARKS.LEFT_HIP)
        rightHip == At(landmarks, LANDMARKS.RIGHT_HIP)
        forwardLean ==
            (leftShoulder.z + rightShoulder.z) - (leftHip.z + rightHip.z)
        horizontalAlignment ==
            Abs((leftShoulder.x + rightShoulder.x) - (leftHip.x + rightHip.x))
        tier ==
            IF forwardLean > 40 THEN 100 * 2000
            ELSE IF forwardLean >= -100
                 THEN 80 * 2000 - Abs(forwardLean) * 400
                 ELSE Max(0, 60 * 2000 - Abs(forwardLean) * 600)
        alignment == Max(0, tier - horizontalAlignment * 200)
    IN  Round(Min(100 * 2000, Max(0, alignment)))

StandingScore(landmarks) ==
    LET leftShoulder == At(landmarks, LANDMARKS.LEFT_SHOULDER)
        rightShoulder == At(landmarks, LANDMARKS.RIGHT_SHOULDER)
        leftHip == At(landmarks, LANDMARKS.LEFT_HIP)
        rightHip == At(landmarks, LANDMARKS.RIGHT_HIP)
        forwardLean ==
            (leftShoulder.z + rightShoulder.z) - (leftHip.z + rightHip.z)
        horizontalAlignment ==
            Abs((leftShoulder.x + rightShoulder.x) - (leftHip.x + rightHip.x))
        tier ==
            IF forwardLean > 40 THEN 100 * 2000
            ELSE IF forwardLean > -100
                 THEN 80 * 2000 - Abs(forwardLean) * 400
                 ELSE Max(0, 60 * 2000 - Abs(forwardLean) * 600)
        horizontalPenalty == horizontalAlignment * 200
        alignment == Max(0, tier - horizontalPenalty)
    IN  Round(Min(100 * 2000, Max(0, alignment)))

\* analyzeStandingPosture recording the seated mode.
analyzeStandingPosture_SittingLabel(landmarks) ==
    LET leftShoulder == At(landmarks, LANDMARKS.LEFT_SHOULDER)
        rightShoulder == At(landmarks, LANDMARKS.RIGHT_SHOULDER)
        leftHip == At(landmarks, LANDMARKS.LEFT_HIP)
        rightHip == At(landmarks, LANDMARKS.RIGHT_HIP)
        score == StandingScore(landmarks)
    IN  [score |-> score,
         status |-> StandingStatus(score),
         message |-> StandingMessage(score),
         posture |-> "sitting",
         metrics |->
            [hipAlignment |->
                (leftShoulder.z + rightShoulder.z)
                - (leftHip.z + rightHip.z)]]

analyzeStandingPosture(landmarks) ==
    LET leftShoulder == At(landmarks, LANDMARKS.LEFT_SHOULDER)
        rightShoulder == At(landmarks, LANDMARKS.RIGHT_SHOULDER)
        leftHip == At(landmarks, LANDMARKS.LEFT_HIP)
        rightHip == At(landmarks, LANDMARKS.RIGHT_HIP)
        score == StandingScore(landmarks)
    IN  [score |-> score,
         status |-> StandingStatus(score),
         message |-> StandingMessage(score),
         posture |-> "standing",
         metrics |->
            [hipAlignment |->
                (leftShoulder.z + rightShoulder.z)
                - (leftHip.z + rightHip.z)]]

\* The length guard turning away only an empty array.
TooFewLandmarks_OnlyEmpty(landmarks) == landmarks.length = 0

\* The guard of analyzePosture on the array's length.
TooFewLandmarks(landmarks) == landmarks.length < 33

\* analyzePosture keeping the standing mode of the analysis before it while the
\* hips are still in the frame.
analyzePosture_Sticky(landmarks) ==
    IF landmarks = Null \/ landmarks = Undefined THEN Null
    ELSE IF TooFewLandmarks(landmarks) THEN Null
    ELSE LET leftShoulder == At(landmarks, LANDMARKS.LEFT_SHOULDER)
             rightShoulder == At(landmarks, LANDMARKS.RIGHT_SHOULDER)
             leftHip == At(landmarks, LANDMARKS.LEFT_HIP)
             rightHip == At(landmarks, LANDMARKS.RIGHT_HIP)
             leftEar == At(landmarks, LANDMARKS.LEFT_EAR)
             rightEar == At(landmarks, LANDMARKS.RIGHT_EAR)
             nose == At(landmarks, LANDMARKS.NOSE)
             wasStanding ==
                 /\ currentPosture # Null
                 /\ currentPosture.posture = "standing"
                 /\ leftHip # Undefined
                 /\ rightHip # Undefined
         IN  IF ~areLandmarksVisible(<<leftShoulder, rightShoulder, leftEar,
                                       rightEar, nose>>)
             THEN Null
             ELSE IF areLandmarksVisible(<<leftHip, rightHip>>) \/ wasStanding
                  THEN analyzeStandingPosture(landmarks)
                  ELSE analyzeSittingPosture(landmarks)

analyzePosture(landmarks) ==
    IF landmarks = Null \/ landmarks = Undefined THEN Null
    ELSE IF TooFewLandmarks(landmarks) THEN Null
    ELSE LET leftShoulder == At(landmarks, LANDMARKS.LEFT_SHOULDER)
             rightShoulder == At(landmarks, LANDMARKS.RIGHT_SHOULDER)
             leftHip == At(landmarks, LANDMARKS.LEFT_HIP)
             rightHip == At(landmarks, LANDMARKS.RIGHT_HIP)
             leftEar == At(landmarks, LANDMARKS.LEFT_EAR)
             rightEar == At(landmarks, LANDMARKS.RIGHT_EAR)
             nose == At(landmarks, LANDMARKS.NOSE)
         IN  IF ~areLandmarksVisible(<<leftShoulder, rightShoulder, leftEar,
                                       rightEar, nose>>)
             THEN Null
             ELSE IF areLandmarksVisible(<<leftHip, rightHip>>)
                  THEN analyzeStandingPosture(landmarks)
                  ELSE analyzeSittingPosture(landmarks)

-----------------------------------------------------------------------------
(* Landmark arrays the pose estimator can hand over *)

Landmark(x, y, z, visibility) ==
    [x |-> x, y |-> y, z |-> z, visibility |-> visibility]

\* An array of the given length holding the seven landmarks the service reads
\* (the other elements are never read).
Frame(length, nose, leftEar, rightEar, leftShoulder, rightShoulder, leftHip, rightHip) ==
    [length |-> length,
     at |-> [i \in UsedIndices |->
                CASE i = 0 -> nose
                  [] i = 7 -> leftEar
                  [] i = 8 -> rightEar
                  [] i = 11 -> leftShoulder
                  [] i = 12 -> rightShoulder
                  [] i = 23 -> leftHip
                  [] OTHER -> rightHip]]

\* An upright head over level shoulders; the ears are earX to the side of the
\* shoulders, the hips are hipZ behind the shoulders' depth and seen with
\* confidence hipVisibility.
Upright(length, earX, hipZ, hipVisibility) ==
    Frame(length,
          Landmark(500, 220, -50, 900),
          Landmark(500 + earX, 200, 0, 900),
          Landmark(500 + earX, 200, 0, 900),
          Landmark(500, 300, 0, 900),
          Landmark(500, 300, 0, 900),
          Landmark(500, 600, hipZ, hipVisibility),
          Landmark(500, 600, hipZ, hipVisibility))

GoodSitting == Upright(33, 0, 0, 100)
FairSitting == Upright(33, 100, 0, 100)
PoorSitting == Upright(33, 200, 0, 100)
GoodStanding == Upright(33, 0, -50, 900)
PoorStanding == Upright(33, 0, 50, 900)
ShortFrame == Upright(20, 0, 0, 900)
LowConfidence ==
    [GoodSitting EXCEPT !.at[0] = Landmark(500, 220, -50, 500)]

NoLandmarks == [poseLandmarks |-> Undefined]

\* The results objects of the throttle's specification.
ThrottleResults ==
    {NoLandmarks} \cup
    {[poseLandmarks |-> f] :
        f \in {GoodSitting, FairSitting, PoorSitting, GoodStanding,
               PoorStanding, ShortFrame, LowConfidence}}

-----------------------------------------------------------------------------
(* pose-detection.component.ts *)

notificationCooldown == 60000

NoStatus == "null"
NoAlert == [type |-> "none"]
Permissions == {"default", "granted", "denied"}

\* checkAndSendNotification without its cooldown test.
checkAndSendNotification_NoCooldown(posture, last) ==
    IF electronAPI
    THEN [alert |-> [channel |-> "electronAPI.sendNotification",
                     title |-> "Desk Sentry Alert",
                     message |-> posture.message,
                     score |-> posture.score,
                     urgency |-> "normal"],
          lastNotificationTime |-> now]
    ELSE IF notificationInWindow /\ permission = "granted"
         THEN [alert |-> [channel |-> "new Notification",
                          title |-> "Desk Sentry Alert",
                          message |-> posture.message],
               lastNotificationTime |-> now]
         ELSE [alert |-> NoAlert, lastNotificationTime |-> last]

\* checkAndSendNotification never recording the time of the alert it emits.
checkAndSendNotification_NoRecord(posture, last) ==
    IF now - last < notificationCooldown
    THEN [alert |-> NoAlert, lastNotificationTime |-> last]
    ELSE IF electronAPI
         THEN [alert |-> [channel |-> "electronAPI.sendNotification",
                          title |-> "Desk Sentry Alert",
                          message |-> posture.message,
                          score |-> posture.score,
                          urgency |-> "normal"],
               lastNotificationTime |-> last]
         ELSE IF notificationInWindow /\ permission = "granted"
              THEN [alert |-> [channel |-> "new Notification",
                               title |-> "Desk Sentry Alert",
                               message |-> posture.message],
                    lastNotificationTime |-> last]
              ELSE [alert |-> NoAlert, lastNotificationTime |-> last]

\* checkAndSendNotification(posture), entered with lastNotificationTime = last:
\* the alert request it emits (NoAlert when it emits none) and the value it
\* leaves in lastNotificationTime.
checkAndSendNotification(posture, last) ==
    IF now - last < notificationCooldown
    THEN [alert |-> NoAlert, lastNotificationTime |-> last]
    ELSE IF electronAPI
         THEN [alert |-> [channel |-> "electronAPI.sendNotification",
                          title |-> "Desk Sentry Alert",
                          message |-> posture.message,
                          score |-> posture.score,
                          urgency |-> "normal"],
               lastNotificationTime |-> now]
         ELSE IF notificationInWindow /\ permission = "granted"
              THEN [alert |-> [channel |-> "new Notification",
                               title |-> "Desk Sentry Alert",
                               message |-> posture.message],
                    lastNotificationTime |-> now]
              ELSE [alert |-> NoAlert, lastNotificationTime |-> last]

\* onPoseResults without its improvement reset.
ImprovementReset_Never(status) == lastNotificationTime

\* The improvement reset of onPoseResults: the value of lastNotificationTime
\* after the test on the previous and the current status.
ImprovementReset(status) ==
    IF lastPostureStatus = "poor" /\ status # "poor"
    THEN 0
    ELSE lastNotificationTime

\* A callback without analysis that records the missing status as null.
NoAnalysisOutcome_ForgetStatus(analyzing) ==
    [currentPosture |-> Null,
     isAnalyzing |-> analyzing,
     lastPostureStatus |-> NoStatus,
     lastNotificationTime |-> lastNotificationTime,
     alert |-> NoAlert]

\* A callback without analysis that leaves the earlier analysis on display.
NoAnalysisOutcome_KeepPosture(analyzing) ==
    [currentPosture |-> currentPosture,
     isAnalyzing |-> analyzing,
     lastPostureStatus |-> lastPostureStatus,
     lastNotificationTime |-> lastNotificationTime,
     alert |-> NoAlert]

\* A callback that gets no analysis: the throttle's fields stay as they are
\* and nothing is emitted.
NoAnalysisOutcome(analyzing) ==
    [currentPosture |-> Null,
     isAnalyzing |-> analyzing,
     lastPostureStatus |-> lastPostureStatus,
     lastNotificationTime |-> lastNotificationTime,
     alert |-> NoAlert]

\* The status remembered only when it is poor.
StatusToRemember_OnlyPoor(posture) ==
    IF posture.status = "poor" THEN "poor" ELSE lastPostureStatus

\* The value onPoseResults stores in lastPostureStatus after an analysis.
StatusToRemember(posture) == posture.status

\* The notification test entered on every posture that is not good.
NeedsNotification_NotGood(posture) == posture.status # "good"

\* The test of onPoseResults before it calls checkAndSendNotification.
NeedsNotification(posture) == posture.status = "poor"

\* What onPoseResults(r) leaves in the component's fields and emits.
Outcome(r) ==
    IF r.poseLandmarks # Undefined /\ r.poseLandmarks # Null
    THEN LET posture == analyzePosture(r.poseLandmarks)
         IN  IF posture # Null
             THEN LET last == ImprovementReset(posture.status)
                      sent == IF NeedsNotification(posture)
                              THEN checkAndSendNotification(posture, last)
                              ELSE [alert |-> NoAlert,
                                    lastNotificationTime |-> last]
                  IN  [currentPosture |-> posture,
                       isAnalyzing |-> TRUE,
                       lastPostureStatus |-> StatusToRemember(posture),
                       lastNotificationTime |-> sent.lastNotificationTime,
                       alert |-> sent.alert]
             ELSE NoAnalysisOutcome(TRUE)
    ELSE NoAnalysisOutcome(FALSE)

-----------------------------------------------------------------------------
(* History of a run: what an observer of the frames, the clock and the     *)
(* emitted alert requests has seen.  It reads the frames' results and the  *)
(* alerts, never the throttle's decision.                                  *)

InitHist ==
    [frame |-> "none",        \* the latest callback: none yet, nolandmarks,
                              \* noanalysis, or the status of its analysis
     eligible |-> FALSE,      \* the cooldown had run out at the latest callback
     initial |-> FALSE,       \* the throttle was in its initial state there
     alerted |-> FALSE,       \* an alert request has been emitted
     alertTime |-> 0,         \* the clock at the latest alert request
     early |-> FALSE,         \* the latest alert request came less than the
                              \* cooldown after the one before it
     nonPoorBetween |-> FALSE,\* a non-poor analysis lay between those two
     nonPoorSince |-> FALSE,  \* a non-poor analysis since the latest alert
     noResultSince |-> FALSE, \* a frame without analysis since the latest alert
     inRun |-> FALSE,         \* the latest analysis is poor
     runStart |-> 0,          \* the clock at the first analysis of this poor run
     runSpan |-> 0,           \* from there to the run's latest analysis
     runEligible |-> FALSE,   \* the cooldown had run out at that first analysis
     runAlerts |-> 0,         \* alert requests of this poor run (2: two or more)
     runFirstAlerted |-> FALSE,\* the run's first analysis emitted one
     due |-> FALSE,           \* the latest analysis is poor, its run has alerted
                              \* before, and that alert is a cooldown or more ago
     phase |-> "idle",        \* fired: the latest analysis is poor and alerted;
                              \* improved: a non-poor analysis right after it;
                              \* again: a poor analysis right after that
     status |-> NoStatus,     \* the status of the latest analysis, if any
     kept |-> TRUE,           \* the latest callback left lastNotificationTime
                              \* as it found it
     attemptTime |-> 0,       \* the clock at the latest analysis of this poor
                              \* run that found the cooldown run out (0: none)
     retry |-> FALSE,         \* the latest analysis found the cooldown run out
                              \* less than the cooldown after an earlier one of
                              \* the same poor run did
     overlaps |-> FALSE,      \* the latest callback's frame was already sent
                              \* when the callback before it ran
     nextOverlaps |-> FALSE]  \* the same, of the callback to come

HistAfter(r, out) ==
    LET analysed == out.currentPosture # Null
        kind == IF analysed THEN out.currentPosture.status
                ELSE IF out.isAnalyzing THEN "noanalysis" ELSE "nolandmarks"
        poor == kind = "poor"
        sent == out.alert # NoAlert
        starts == poor /\ ~hist.inRun
        inRun == IF analysed THEN poor ELSE hist.inRun
        runStart == IF starts THEN now
                    ELSE IF inRun THEN hist.runStart ELSE 0
        attempt == poor /\ now - lastNotificationTime >= notificationCooldown
    IN  [frame |-> kind,
         eligible |-> now - lastNotificationTime >= notificationCooldown,
         initial |-> lastNotificationTime = 0 /\ lastPostureStatus = NoStatus,
         alerted |-> hist.alerted \/ sent,
         alertTime |-> IF sent THEN now ELSE hist.alertTime,
         early |-> IF sent
                   THEN hist.alerted
                        /\ now - hist.alertTime < notificationCooldown
                   ELSE hist.early,
         nonPoorBetween |-> IF sent THEN hist.nonPoorSince
                            ELSE hist.nonPoorBetween,
         nonPoorSince |-> IF sent THEN FALSE
                          ELSE hist.nonPoorSince \/ (analysed /\ ~poor),
         noResultSince |-> IF sent THEN FALSE
                           ELSE hist.noResultSince \/ ~analysed,
         inRun |-> inRun,
         runStart |-> runStart,
         runSpan |-> IF ~inRun THEN 0
                     ELSE IF analysed THEN now - runStart ELSE hist.runSpan,
         runEligible |->
            IF starts
            THEN now - lastNotificationTime >= notificationCooldown
            ELSE inRun /\ hist.runEligible,
         runAlerts |->
            IF ~analysed THEN hist.runAlerts
            ELSE IF ~poor THEN 0
            ELSE LET before == IF starts THEN 0 ELSE hist.runAlerts
                 IN  IF sent THEN Min(2, before + 1) ELSE before,
         runFirstAlerted |->
            IF starts THEN sent ELSE inRun /\ hist.runFirstAlerted,
         due |-> /\ poor
                 /\ hist.inRun
                 /\ hist.runAlerts > 0
                 /\ now - hist.alertTime >= notificationCooldown,
         phase |->
            IF ~analysed THEN hist.phase
            ELSE IF poor /\ sent /\ hist.phase # "improved" THEN "fired"
            ELSE IF poor /\ hist.phase = "improved" THEN "again"
            ELSE IF ~poor /\ hist.phase \in {"fired", "improved"}
                 THEN "improved"
            ELSE "idle",
         status |-> IF analysed THEN kind ELSE hist.status,
         kept |-> out.lastNotificationTime = lastNotificationTime,
         attemptTime |->
            IF ~inRun THEN 0
            ELSE IF attempt THEN now
            ELSE IF starts THEN 0
            ELSE hist.attemptTime,
         retry |-> /\ attempt
                   /\ ~starts
                   /\ hist.attemptTime > 0
                   /\ now - hist.attemptTime < notificationCooldown,
         overlaps |-> hist.nextOverlaps,
         nextOverlaps |-> Len(pending) >= 2]

-----------------------------------------------------------------------------
(* The throttle's specification: frames, clock and permission interleave *)

\* Where the renderer runs: inside Electron with the preload script's API, in
\* a browser that has notifications, or in one that has none.
InitWindow ==
    \/ electronAPI = TRUE /\ notificationInWindow = TRUE
       /\ permission = "granted"
    \/ electronAPI = FALSE /\ notificationInWindow = TRUE
       /\ permission \in Permissions
    \/ electronAPI = FALSE /\ notificationInWindow = FALSE
       /\ permission = "default"

\* The component's fields as constructed.
InitComponent ==
    /\ currentPosture = Null
    /\ isAnalyzing = FALSE
    /\ lastNotificationTime = 0
    /\ lastPostureStatus = NoStatus
    /\ alert = NoAlert
    /\ pending = <<>>
    /\ hist = InitHist

Init ==
    /\ now = StartTime
    /\ InitWindow
    /\ results = NoLandmarks
    /\ InitComponent

\* The pose estimator calls back with r.
onPoseResults(r) ==
    LET out == Outcome(r)
    IN  /\ results' = r
        /\ currentPosture' = out.currentPosture
        /\ isAnalyzing' = out.isAnalyzing
        /\ lastPostureStatus' = out.lastPostureStatus
        /\ lastNotificationTime' = out.lastNotificationTime
        /\ alert' = out.alert
        /\ hist' = HistAfter(r, out)
        /\ UNCHANGED <<now, electronAPI, notificationInWindow, permission>>

\* The wall clock advances by d milliseconds.
Tick(d) ==
    /\ now + d <= MaxTime
    /\ now' = now + d
    /\ UNCHANGED <<electronAPI, notificationInWindow, permission, results,
                   currentPosture, isAnalyzing, lastNotificationTime,
                   lastPostureStatus, alert, pending, hist>>

\* The browser's notification permission for the page changes to p.
PermissionChange(p) ==
    /\ ~electronAPI
    /\ notificationInWindow
    /\ p # permission
    /\ permission' = p
    /\ UNCHANGED <<now, electronAPI, notificationInWindow, results,
                   currentPosture, isAnalyzing, lastNotificationTime,
                   lastPostureStatus, alert, pending, hist>>

\* A frame whose results come back at once.
Frames ==
    /\ pending = <<>>
    /\ \E r \in ThrottleResults : onPoseResults(r)
    /\ UNCHANGED pending
Clock == Tick(TickStep)
Browser == \E p \in Permissions : PermissionChange(p)

Next == Frames \/ Clock \/ Browser

Spec == Init /\ [][Next]_vars

-----------------------------------------------------------------------------
(* The camera's specification: frames are sent to the estimator by the      *)
(* asynchronous onFrame and their results come back later, in order, each  *)
(* in one call of onPoseResults, which has no await and runs to its end.   *)

\* The results objects of the camera's specification.
AsyncResults == {[poseLandmarks |-> f] : f \in {GoodSitting, PoorStanding}}

\* The camera starts two ticks before the end of the clock.
InitAsync ==
    /\ now = MaxTime - 2 * TickStep
    /\ InitWindow
    /\ results = NoLandmarks
    /\ InitComponent

\* onFrame: the camera hands a frame to pose.send; r is what the estimator
\* will make of it.
onFrame(r) ==
    /\ Len(pending) < MaxPending
    /\ pending' = Append(pending, r)
    /\ UNCHANGED <<now, electronAPI, notificationInWindow, permission, results,
                   currentPosture, isAnalyzing, lastNotificationTime,
                   lastPostureStatus, alert, hist>>

\* The estimator finishes the oldest frame in flight and calls back.
onResults ==
    /\ pending # <<>>
    /\ onPoseResults(Head(pending))
    /\ pending' = Tail(pending)

Camera == \E r \in AsyncResults : onFrame(r)
Estimator == onResults

NextAsync == Camera \/ Estimator \/ Clock \/ Browser

SpecAsync == InitAsync /\ [][NextAsync]_vars

-----------------------------------------------------------------------------
(* The scorer's specification: one callback on each frame of a larger set *)

\* The ways a landmark can arrive: 0 absent from the array, 1 without a
\* visibility, 2 to 5 with a visibility of 0.1, 0.5, 0.501 or 0.9.
Arrival(n, x, y, z) ==
    CASE n = 0 -> Undefined
      [] n = 1 -> [x |-> x, y |-> y, z |-> z]
      [] n = 2 -> Landmark(x, y, z, 100)
      [] n = 3 -> Landmark(x, y, z, 500)
      [] n = 4 -> Landmark(x, y, z, 501)
      [] OTHER -> Landmark(x, y, z, 900)

\* Every arrival of the five head and shoulder landmarks, around the 0.5
\* threshold, with three arrivals of each hip.
VisibilityFrames ==
    {Frame(33,
           Arrival(v[0], 500, 220, -50),
           Arrival(v[7], 500, 200, 0),
           Arrival(v[8], 500, 200, 0),
           Arrival(v[11], 500, 300, 0),
           Arrival(v[12], 500, 300, 0),
           Arrival(v[23], 500, 600, 0),
           Arrival(v[24], 500, 600, 0)) :
        v \in {w \in [UsedIndices -> {0, 1, 3, 4}] :
                  w[23] # 1 /\ w[24] # 1}}

\* Arrays shorter and longer than the estimator's 33 landmarks, all of whose
\* elements are confident, seated and standing.
Lengths == {0, 20, 32} \cup (33 .. 33 + MaxExtra)

LengthFrames ==
    {Upright(n, earX, 0, hipVisibility) :
        n \in Lengths, earX \in {0, 200}, hipVisibility \in {100, 900}}

\* Seated frames (the hips are not seen) over the four penalties' thresholds.
SittingFrames ==
    {Frame(33,
           Landmark(noseX, 220, -50, 900),
           Landmark(leftEarX, 200, earZ, 900),
           Landmark(rightEarX, 200, earZ, 900),
           Landmark(500, leftShoulderY, 0, 900),
           Landmark(500, 300, 0, 900),
           Landmark(500, 600, 0, 100),
           Landmark(500, 600, 0, 100)) :
        noseX \in {500, 580, 581, 900},
        leftEarX \in {300, 450, 500, 550, 560, 700, 1000},
        rightEarX \in {500, 550},
        earZ \in {-400, -21, -20, 0},
        leftShoulderY \in {300, 350, 351, 550, 800}}

\* Standing frames (both hips are seen) over the three tiers of forward lean
\* and a range of horizontal offsets.
StandingFrames ==
    {Frame(33,
           Landmark(500, 220, -50, 900),
           Landmark(500, 200, 0, 900),
           Landmark(500, 200, 0, 900),
           Landmark(500, 300, 0, 900),
           Landmark(500, 300, 0, 900),
           Landmark(leftHipX, 600, leftHipZ, 900),
           Landmark(rightHipX, 600, rightHipZ, 900)) :
        leftHipX \in {0, 350, 475, 500},
        rightHipX \in {350, 475, 500},
        leftHipZ \in {-100, -21, -20, 0, 49, 50, 51, 100, 200},
        rightHipZ \in {-20, 0, 50}}

ScorerResults ==
    {NoLandmarks} \cup
    {[poseLandmarks |-> f] :
        f \in VisibilityFrames \cup LengthFrames \cup SittingFrames
              \cup StandingFrames}

InitFrames ==
    /\ now = StartTime
    /\ InitWindow
    /\ results \in ScorerResults
    /\ InitComponent

\* The first callback, on the results the estimator has ready.
FirstFrame ==
    /\ hist.frame = "none"
    /\ onPoseResults(results)
    /\ UNCHANGED pending

SpecFrames == InitFrames /\ [][FirstFrame]_vars

-----------------------------------------------------------------------------
(* The throttle: alert requests over a stream of frames *)

Emitted == alert # NoAlert

\* C1.  A poor run that starts with the cooldown run out and spans less
\* than 60 s has produced exactly one alert request, emitted by its first
\* frame.
C1_OneAlertPerShortRun ==
    (hist.inRun /\ hist.runEligible /\ hist.runSpan < notificationCooldown)
        => (hist.runAlerts = 1 /\ hist.runFirstAlerted)

\* C2.  Of any two consecutive alert requests, the later one comes 60 s or
\* more after the earlier one, or a non-poor analysis lies between them.
C2_CooldownBetweenAlerts ==
    hist.early => hist.nonPoorBetween

\* Two alert requests less than 60 s apart, around an improvement.
C2_Witness ==
    hist.early /\ hist.nonPoorBetween /\ hist.frame = "poor" /\ Emitted

\* C3.  A poor analysis that follows a non-poor one that followed an alerting
\* poor one emits an alert request, whatever the time since that alert.
C3_AlertAfterImprovement ==
    (hist.frame = "poor" /\ hist.phase = "again") => Emitted

\* C4.  Within a poor run, a frame 60 s or more after the run's previous
\* alert request emits the next one, and a run that started with the cooldown
\* run out and spans 60 s or more has emitted at least one.
C4_AlertPerElapsedCooldown ==
    /\ hist.due => Emitted
    /\ (hist.inRun /\ hist.runEligible
        /\ hist.runSpan >= notificationCooldown) => hist.runAlerts >= 1

\* C5.  A callback that yields no analysis (no landmarks, too few, or an
\* unconfident head or shoulder) leaves lastPostureStatus and
\* lastNotificationTime as they were and emits no alert request.
C5_NoResultLeavesThrottle ==
    [][hist'.frame \in {"nolandmarks", "noanalysis"}
        => /\ lastPostureStatus' = lastPostureStatus
           /\ lastNotificationTime' = lastNotificationTime
           /\ alert' = NoAlert]_vars

\* A frame without analysis inside a poor run that has alerted: the status is
\* still poor and the alert's time is still recorded.
C5_Witness ==
    /\ hist.frame \in {"nolandmarks", "noanalysis"}
    /\ hist.inRun
    /\ hist.runAlerts = 1
    /\ hist.noResultSince
    /\ lastPostureStatus = "poor"
    /\ lastNotificationTime = hist.alertTime
    /\ now > hist.alertTime

\* C6.  The first poor analysis met in the initial state (lastNotificationTime
\* 0, no last status) emits an alert request.
C6_InitialStateAlerts ==
    (hist.frame = "poor" /\ hist.initial) => Emitted

-----------------------------------------------------------------------------
(* The scorer: the analysis of one frame *)

Analysed == currentPosture # Null
Delivered == hist.frame # "none"
HasLandmarks == results.poseLandmarks # Undefined

\* C7.  Every analysis, seated or standing, has an integer score from 0 to
\* 100.
C7_ScoreInRange ==
    Analysed => currentPosture.score \in 0..100

\* A seated analysis whose penalties exceed 100 points.
C7_Witness ==
    /\ Analysed
    /\ currentPosture.posture = "sitting"
    /\ currentPosture.score = 0
    /\ currentPosture.metrics.earShoulderAlignment > 400

\* C8.  In every analysis the status follows from the score alone, the same
\* way in both modes: good from 75, fair from 50 to 74, poor below 50.
C8_StatusFromScore ==
    Analysed =>
        /\ (currentPosture.status = "good") <=> (currentPosture.score >= 75)
        /\ (currentPosture.status = "fair")
               <=> (currentPosture.score >= 50 /\ currentPosture.score < 75)
        /\ (currentPosture.status = "poor") <=> (currentPosture.score < 50)

\* A standing analysis scoring exactly 75.
C8_Witness ==
    /\ Analysed
    /\ currentPosture.posture = "standing"
    /\ currentPosture.score = 75
    /\ currentPosture.status = "good"

\* C9 as claimed.  A frame whose array is not exactly 33 long yields no
\* analysis.
C9_OnlyExactly33 ==
    (Delivered /\ HasLandmarks /\ results.poseLandmarks.length # 33)
        => ~Analysed

\* C9 as amended.  A frame whose array is shorter than 33 yields no analysis:
\* the callback ends with currentPosture null and no alert request.
C9_ShorterThan33 ==
    (Delivered /\ HasLandmarks /\ results.poseLandmarks.length < 33)
        => (~Analysed /\ hist.frame = "noanalysis" /\ ~Emitted)

\* A frame of 20 confident landmarks went through the callback.
C9_Witness ==
    /\ Delivered
    /\ HasLandmarks
    /\ results.poseLandmarks.length = 20
    /\ ~Analysed
    /\ isAnalyzing

\* The nose, an ear or a shoulder is absent, without visibility, or at a
\* visibility of 0.5 or less.
HeadUnseen(landmarks) ==
    \E i \in {0, 7, 8, 11, 12} :
        \/ At(landmarks, i) = Undefined
        \/ "visibility" \notin DOMAIN At(landmarks, i)
        \/ At(landmarks, i).visibility <= 500

\* C10.  A frame with the nose, an ear or a shoulder unseen yields no analysis
\* whatever the hips' visibility, and a 33-landmark frame with all five seen
\* above 0.5 always yields one.
C10_HeadGate ==
    (Delivered /\ HasLandmarks) =>
        /\ HeadUnseen(results.poseLandmarks) => ~Analysed
        /\ (results.poseLandmarks.length = 33
            /\ ~HeadUnseen(results.poseLandmarks)) => Analysed

\* The nose at exactly 0.5 with both hips confident: no analysis.
C10_Witness ==
    /\ Delivered
    /\ HasLandmarks
    /\ results.poseLandmarks.length = 33
    /\ At(results.poseLandmarks, 0) # Undefined
    /\ "visibility" \in DOMAIN At(results.poseLandmarks, 0)
    /\ At(results.poseLandmarks, 0).visibility = 500
    /\ ~HeadUnseen([results.poseLandmarks EXCEPT
                        !.at[0] = Landmark(500, 220, -50, 900)])
    /\ At(results.poseLandmarks, 23) # Undefined
    /\ At(results.poseLandmarks, 23).visibility > 500
    /\ At(results.poseLandmarks, 24) # Undefined
    /\ At(results.poseLandmarks, 24).visibility > 500
    /\ ~Analysed

\* The left and the right hip are both present with a visibility above 0.5.
HipsSeen(landmarks) ==
    \A i \in {23, 24} :
        /\ At(landmarks, i) # Undefined
        /\ "visibility" \in DOMAIN At(landmarks, i)
        /\ At(landmarks, i).visibility > 500

\* C11.  An analysis is in standing mode exactly when both hips are seen above
\* 0.5 and in sitting mode otherwise, and the mode it records is the mode of
\* the scorer that produced its score and its metrics.
C11_ModeFromHips ==
    Analysed =>
        /\ (currentPosture.posture = "standing")
               <=> HipsSeen(results.poseLandmarks)
        /\ (currentPosture.posture = "sitting")
               <=> ~HipsSeen(results.poseLandmarks)
        /\ IF currentPosture.posture = "standing"
           THEN /\ DOMAIN currentPosture.metrics = {"hipAlignment"}
                /\ currentPosture.score = StandingScore(results.poseLandmarks)
           ELSE /\ DOMAIN currentPosture.metrics =
                       {"earShoulderAlignment", "noseShoulderAlignment"}
                /\ currentPosture.score = SittingScore(results.poseLandmarks)

\* A confident head over hips seen at 0.1 is scored seated.
C11_Witness ==
    /\ Analysed
    /\ currentPosture.posture = "sitting"
    /\ ~HeadUnseen(results.poseLandmarks)
    /\ At(results.poseLandmarks, 23) # Undefined
    /\ At(results.poseLandmarks, 23).visibility = 100
    /\ At(results.poseLandmarks, 24) # Undefined
    /\ At(results.poseLandmarks, 24).visibility = 100
    /\ "earShoulderAlignment" \in DOMAIN currentPosture.metrics

-----------------------------------------------------------------------------
(* The analysis and the throttle *)

\* The analysis of each frame of the throttle's specification, worked out by
\* hand from the frame's coordinates.
C12_Reference(r) ==
    CASE r = [poseLandmarks |-> GoodSitting] ->
            [score |-> 100, status |-> "good",
             message |-> "Excellent sitting posture!", posture |-> "sitting",
             metrics |-> [earShoulderAlignment |-> 0,
                          noseShoulderAlignment |-> 0]]
      [] r = [poseLandmarks |-> FairSitting] ->
            [score |-> 70, status |-> "fair",
             message |-> "Head too far forward", posture |-> "sitting",
             metrics |-> [earShoulderAlignment |-> 200,
                          noseShoulderAlignment |-> 0]]
      [] r = [poseLandmarks |-> PoorSitting] ->
            [score |-> 40, status |-> "poor",
             message |-> "Slouching - sit up straight!",
             posture |-> "sitting",
             metrics |-> [earShoulderAlignment |-> 400,
                          noseShoulderAlignment |-> 0]]
      [] r = [poseLandmarks |-> GoodStanding] ->
            [score |-> 100, status |-> "good",
             message |-> "Excellent posture!", posture |-> "standing",
             metrics |-> [hipAlignment |-> 100]]
      [] r = [poseLandmarks |-> PoorStanding] ->
            [score |-> 30, status |-> "poor",
             message |-> "Slouching detected!", posture |-> "standing",
             metrics |-> [hipAlignment |-> -100]]
      [] OTHER -> Null

\* C12.  The analysis of a frame is the same whatever frames came before it
\* and whatever the throttle's state: after every callback with landmarks,
\* currentPosture is the one analysis that frame has.
C12_HistoryFree ==
    (Delivered /\ HasLandmarks) => currentPosture = C12_Reference(results)

\* The slouching frame analysed inside the cooldown of an earlier alert, after
\* a frame without analysis.
C12_Witness ==
    /\ results = [poseLandmarks |-> PoorStanding]
    /\ hist.frame = "poor"
    /\ currentPosture = C12_Reference(results)
    /\ hist.runAlerts = 1
    /\ hist.noResultSince
    /\ ~Emitted
    /\ lastNotificationTime > 0
    /\ now > lastNotificationTime

-----------------------------------------------------------------------------
(* The throttle: one callback's transition *)

\* C13.  After a callback with a poor analysis: an alert request was emitted
\* exactly when the cooldown had run out (now - lastNotificationTime >= 60 s),
\* lastNotificationTime is the clock of that callback exactly when one was
\* emitted, and a callback that emitted none left lastNotificationTime as it
\* found it.
C13_AlertIffCooldownOver ==
    hist.frame = "poor" =>
        /\ Emitted <=> hist.eligible
        /\ Emitted => lastNotificationTime = hist.alertTime
        /\ ~Emitted => hist.kept

\* C14.  No retry: inside one poor run, an analysis that finds the cooldown
\* run out and goes on to dispatch is never followed, less than 60 s later, by
\* another that does, whether or not the first one's alert was delivered.
C14_NoRetry ==
    ~hist.retry

\* C15.  lastPostureStatus is the status of the latest analysis, whatever that
\* status is and whether or not an alert request went out, and a non-poor
\* analysis that comes after a poor latest analysis takes the improvement
\* reset.
C15_LastStatusIsLatest ==
    /\ [](lastPostureStatus = hist.status)
    /\ [][(hist'.frame \in {"good", "fair"} /\ hist.status = "poor")
            => (lastNotificationTime' = 0 /\ lastPostureStatus' # "poor")]_vars

\* A poor analysis whose alert request was suppressed, and it is remembered.
C15_Witness ==
    /\ hist.frame = "poor"
    /\ ~Emitted
    /\ hist.runAlerts = 1
    /\ ~hist.eligible
    /\ lastPostureStatus = "poor"
    /\ hist.status = "poor"

\* C16.  A callback with a good or fair analysis emits no alert request; it
\* sets lastNotificationTime to 0 when the latest analysis before it was poor
\* and leaves it as it was when that analysis was good or fair or there was
\* none.
C16_NonPoorFrame ==
    [][hist'.frame \in {"good", "fair"}
        => /\ alert' = NoAlert
           /\ lastNotificationTime' =
                 IF hist.status = "poor" THEN 0 ELSE lastNotificationTime]_vars

\* A fair analysis right after a poor run that had alerted: the recorded time
\* of the alert is gone.
C16_Witness ==
    /\ hist.frame = "fair"
    /\ hist.alerted
    /\ hist.phase = "improved"
    /\ ~hist.kept
    /\ lastNotificationTime = 0
    /\ ~Emitted

\* C17.  An alert request is emitted only by a callback whose frame has an
\* analysis, of status poor.
C17_AlertOnlyOnPoor ==
    Emitted =>
        /\ HasLandmarks
        /\ Analysed
        /\ currentPosture.status = "poor"
        /\ hist.frame = "poor"

\* A poor analysis that emitted an alert request through the fallback.
C17_Witness ==
    /\ Emitted
    /\ alert.channel = "new Notification"
    /\ hist.frame = "poor"
    /\ currentPosture.status = "poor"
    /\ lastNotificationTime = now

-----------------------------------------------------------------------------
(* The scorers' formulas.  A quantity q of the source that is a difference  *)
(* of midpoints is read here as 2000 * q, a shoulder height difference as   *)
(* 1000 * q, and points as 2000ths of a point.                              *)

\* s is v, clamped to 0..100 points and rounded to the nearest integer, a
\* half rounding up.
IsRoundedClamp(s, v) ==
    LET c == IF v < 0 THEN 0 ELSE IF v > 200000 THEN 200000 ELSE v
    IN  /\ s \in 0..100
        /\ 2000 * s - 1000 <= c
        /\ c < 2000 * s + 1000

\* Twice the shoulders' midpoint depth minus twice the hips' midpoint depth.
ForwardLean2(landmarks) ==
    (At(landmarks, 11).z + At(landmarks, 12).z)
    - (At(landmarks, 23).z + At(landmarks, 24).z)

\* Twice the sideways distance of the shoulders' midpoint from the hips'.
HorizontalAlignment2(landmarks) ==
    Abs((At(landmarks, 11).x + At(landmarks, 12).x)
        - (At(landmarks, 23).x + At(landmarks, 24).x))

\* C19.  A standing score is round(clamp(max(0, tier - horizontalAlignment *
\* 200), 0, 100)), the tier being 100 for a forward lean above 0.02, 80 -
\* |lean| * 400 for a lean above -0.05 and up to 0.02, and max(0, 60 - |lean|
\* * 600) from -0.05 down.  With the hips under the shoulders a lean of
\* exactly 0.02 scores 72 and a lean of exactly -0.05 scores 30, poor.
C19_StandingFormula ==
    (Analysed /\ currentPosture.posture = "standing") =>
        LET fl == ForwardLean2(results.poseLandmarks)
            ha == HorizontalAlignment2(results.poseLandmarks)
            tier == IF fl > 40 THEN 200000
                    ELSE IF fl > -100 /\ fl <= 40 THEN 160000 - Abs(fl) * 400
                    ELSE Max(0, 120000 - Abs(fl) * 600)
        IN  /\ IsRoundedClamp(currentPosture.score, Max(0, tier - ha * 200))
            /\ (fl = 40 /\ ha = 0) => currentPosture.score = 72
            /\ (fl = -100 /\ ha = 0)
                   => (currentPosture.score = 30
                       /\ currentPosture.status = "poor")

\* Standing with a forward lean of exactly -0.05 over aligned hips.
C19_Witness ==
    /\ Analysed
    /\ currentPosture.posture = "standing"
    /\ ForwardLean2(results.poseLandmarks) = -100
    /\ HorizontalAlignment2(results.poseLandmarks) = 0
    /\ currentPosture.score = 30

\* The four quantities of the seated scorer.
ForwardHead2(landmarks) ==
    (At(landmarks, 7).x + At(landmarks, 8).x)
    - (At(landmarks, 11).x + At(landmarks, 12).x)

EarDepth2(landmarks) ==
    (At(landmarks, 7).z + At(landmarks, 8).z)
    - (At(landmarks, 11).z + At(landmarks, 12).z)

NoseLean2(landmarks) ==
    2 * At(landmarks, 0).x - (At(landmarks, 11).x + At(landmarks, 12).x)

ShoulderImbalance1(landmarks) ==
    Abs(At(landmarks, 11).y - At(landmarks, 12).y)

\* C20.  A seated score is round(clamp(100 - P, 0, 100)), P being the sum of
\* |forward head distance| * 300 when that is above 0.05, |ear depth| * 200
\* when the depth is below -0.02, (nose lean - 0.08) * 150 when the lean is
\* above 0.08 and shoulder imbalance * 100 when that is above 0.05.  A
\* quantity exactly at its threshold adds nothing, and with none exceeded the
\* score is 100.
C20_SittingFormula ==
    (Analysed /\ currentPosture.posture = "sitting") =>
        LET fhd == Abs(ForwardHead2(results.poseLandmarks))
            esd == EarDepth2(results.poseLandmarks)
            nfl == NoseLean2(results.poseLandmarks)
            imb == ShoulderImbalance1(results.poseLandmarks)
            P == (IF fhd > 100 THEN fhd * 300 ELSE 0)
                 + (IF esd < -40 THEN Abs(esd) * 200 ELSE 0)
                 + (IF nfl > 160 THEN (nfl - 160) * 150 ELSE 0)
                 + (IF imb > 50 THEN imb * 200 ELSE 0)
        IN  /\ IsRoundedClamp(currentPosture.score, 200000 - P)
            /\ (fhd <= 100 /\ esd >= -40 /\ nfl <= 160 /\ imb <= 50)
                   => currentPosture.score = 100

\* Seated with all four quantities exactly at their thresholds.
C20_Witness ==
    /\ Analysed
    /\ currentPosture.posture = "sitting"
    /\ Abs(ForwardHead2(results.poseLandmarks)) = 100
    /\ EarDepth2(results.poseLandmarks) = -40
    /\ NoseLean2(results.poseLandmarks) = 160
    /\ ShoulderImbalance1(results.poseLandmarks) = 50
    /\ currentPosture.score = 100

\* C21.  With the sideways offset of the shoulders from the hips held fixed,
\* a standing score never falls as the forward lean grows: every standing
\* frame with the same offset and no more forward lean scores no higher than
\* the frame just analysed.
C21_ScoreMonotone ==
    (Analysed /\ currentPosture.posture = "standing") =>
        \A g \in StandingFrames :
            (/\ HorizontalAlignment2(g)
                    = HorizontalAlignment2(results.poseLandmarks)
             /\ ForwardLean2(g) <= ForwardLean2(results.poseLandmarks))
                => StandingScore(g) <= currentPosture.score

-----------------------------------------------------------------------------
(* What the component shows *)

\* C22.  After every callback currentPosture is the analysis of that callback's
\* own frame, null when the frame has no landmarks or yields no analysis, and
\* isAnalyzing is false exactly when the results carry no landmark array.
C22_ShowsLatestFrame ==
    Delivered =>
        /\ HasLandmarks
               => currentPosture = analyzePosture(results.poseLandmarks)
        /\ ~HasLandmarks => currentPosture = Null
        /\ isAnalyzing <=> HasLandmarks
        /\ hist.frame \in {"nolandmarks", "noanalysis"} => ~Analysed

\* Results without landmarks right after a poor analysis: nothing of that
\* analysis is left on display.
C22_Witness ==
    /\ hist.frame = "nolandmarks"
    /\ hist.status = "poor"
    /\ hist.inRun
    /\ ~HasLandmarks
    /\ currentPosture = Null
    /\ ~isAnalyzing

====
